---- MODULE Spec2Model ----
(***************************************************************************)
(* Model of scripts/flight_search.py: the URL generators, the Amadeus API  *)
(* client, search_flights, search_date_combinations and main.              *)
(*                                                                         *)
(* A Python string is a sequence of tokens.  A token is one character      *)
(* (digits, "-", "/", " ") or a literal chunk of a template that the code  *)
(* never takes apart.  Concatenation is \o.                                *)
(***************************************************************************)
EXTENDS Integers, Sequences, FiniteSets, TLC

\* ------------------------------------------------------------------ bounds
MaxPassengers == 3
MaxReturnDates == 2

\* ----------------------------------------------------------------- strings
\* None where the value is otherwise an airport code or a preset name
None == "<None>"

Digits == <<"0", "1", "2", "3", "4", "5", "6", "7", "8", "9">>

IsDigit(c) == \E i \in 1..10 : Digits[i] = c

DigitVal(c) == (CHOOSE i \in 1..10 : Digits[i] = c) - 1

\* str(n) for n >= 0
RECURSIVE IntToStr(_)
IntToStr(n) ==
    IF n < 10 THEN <<Digits[n + 1]>>
    ELSE IntToStr(n \div 10) \o <<Digits[(n % 10) + 1]>>

\* strftime's zero-padded two-digit fields
Pad2(n) == <<Digits[(n \div 10) + 1], Digits[(n % 10) + 1]>>

RECURSIVE NumVal(_)
NumVal(s) ==
    IF s = <<>> THEN 0
    ELSE 10 * NumVal(SubSeq(s, 1, Len(s) - 1)) + DigitVal(s[Len(s)])

AllDigits(s) == \A i \in 1..Len(s) : IsDigit(s[i])

Contains(s, sub) ==
    \E i \in 0..(Len(s) - Len(sub)) : SubSeq(s, i + 1, i + Len(sub)) = sub

EndsWith(s, sub) ==
    /\ Len(s) >= Len(sub)
    /\ SubSeq(s, Len(s) - Len(sub) + 1, Len(s)) = sub

\* str.lower() on the airport codes
LowerTable == ("PHL" :> "phl") @@ ("DEN" :> "den")

Lower(tok) == IF tok \in DOMAIN LowerTable THEN LowerTable[tok] ELSE tok

\* urllib.parse.quote_plus, token by token: unreserved tokens pass through
QuoteTable == (" " :> "+") @@ ("/" :> "%2F")

QuotePlusTok(tok) == IF tok \in DOMAIN QuoteTable THEN QuoteTable[tok] ELSE tok

QuotePlus(s) == [i \in 1..Len(s) |-> QuotePlusTok(s[i])]

\* urllib.parse.urlencode over an ordered dict of (key, value string)
RECURSIVE urlencode(_)
urlencode(params) ==
    IF params = <<>> THEN <<>>
    ELSE LET head == <<params[1][1], "=">> \o QuotePlus(params[1][2])
         IN  IF Len(params) = 1 THEN head
             ELSE head \o <<"&">> \o urlencode(Tail(params))

\* ------------------------------------------------------------------- dates
\* %m : 1[0-2]|0[1-9]|[1-9]
MonthFieldOk(f) ==
    \/ Len(f) = 1 /\ IsDigit(f[1]) /\ f[1] # "0"
    \/ Len(f) = 2 /\ f[1] = "1" /\ f[2] \in {"0", "1", "2"}
    \/ Len(f) = 2 /\ f[1] = "0" /\ IsDigit(f[2]) /\ f[2] # "0"

\* %d : 3[01]|[12]\d|0[1-9]|[1-9]| [1-9]
DayFieldOk(f) ==
    \/ Len(f) = 1 /\ IsDigit(f[1]) /\ f[1] # "0"
    \/ Len(f) = 2 /\ f[1] = "3" /\ f[2] \in {"0", "1"}
    \/ Len(f) = 2 /\ f[1] \in {"1", "2"} /\ IsDigit(f[2])
    \/ Len(f) = 2 /\ f[1] \in {"0", " "} /\ IsDigit(f[2]) /\ f[2] # "0"

IsLeap(y) == (y % 4 = 0 /\ y % 100 # 0) \/ y % 400 = 0

DaysInMonth(y, m) ==
    IF m = 2 THEN (IF IsLeap(y) THEN 29 ELSE 28)
    ELSE IF m \in {4, 6, 9, 11} THEN 30 ELSE 31

\* the rest of the format matches when the month field ends before p
MonthDashAt(s, p) ==
    /\ p < Len(s)
    /\ s[p] = "-"
    /\ MonthFieldOk(SubSeq(s, 6, p - 1))
    /\ DayFieldOk(SubSeq(s, p + 1, Len(s)))

\* the position of the "-" that ends the month field, 0 when the string does
\* not match the format
MonthDash(s) ==
    IF Len(s) >= 8 /\ AllDigits(SubSeq(s, 1, 4)) /\ s[5] = "-"
    THEN (IF MonthDashAt(s, 7) THEN 7 ELSE IF MonthDashAt(s, 8) THEN 8 ELSE 0)
    ELSE 0

DayVal(f) == IF f[1] = " " THEN DigitVal(f[2]) ELSE NumVal(f)

NoDate == [ok |-> FALSE, y |-> 0, m |-> 0, d |-> 0]

\* the date check left out: any day of 1..31 in any month
strptime_date_any_day(y, m, d) == [ok |-> TRUE, y |-> y, m |-> m, d |-> d]

\* datetime(y, m, d) of the matched fields, or its ValueError
strptime_date(y, m, d) ==
    IF y >= 1 /\ d <= DaysInMonth(y, m) THEN [ok |-> TRUE, y |-> y, m |-> m, d |-> d]
    ELSE NoDate

strptime_fields(s, p) ==
    IF p = 0 THEN NoDate
    ELSE strptime_date(NumVal(SubSeq(s, 1, 4)), NumVal(SubSeq(s, 6, p - 1)),
                       DayVal(SubSeq(s, p + 1, Len(s))))

\* datetime.strptime(s, "%Y-%m-%d"): ok, or ValueError
strptime(s) == strptime_fields(s, MonthDash(s))

\* .strftime("%y%m%d")
strftime(dt) == Pad2(dt.y % 100) \o Pad2(dt.m) \o Pad2(dt.d)

\* ---------------------------------------------------------- URL generators
generate_google_flights_url(origin, destination, depart_date, return_date, passengers) ==
    LET query == <<"Flights", " ", "from", " ", origin, " ", "to", " ", destination, " ", "on", " ">>
                 \o depart_date \o <<" ", "through", " ">> \o return_date
                 \o (IF passengers > 1
                     THEN <<" ">> \o IntToStr(passengers) \o <<" ", "passengers">>
                     ELSE <<>>)
    IN  <<"https://www.google.com/travel/flights", "?">>
        \o urlencode(<< <<"hl", <<"en">> >>, <<"curr", <<"USD">> >>, <<"q", query>> >>)

generate_google_flights_direct_url(origin, destination, depart_date, return_date, passengers) ==
    <<"https://www.google.com/travel/flights?q=Flights+to+", destination, "+from+", origin, "+on+">>
    \o depart_date \o <<"+through+">> \o return_date

kayak_suffix_always(passengers) == IntToStr(passengers) \o <<"adults">>

kayak_passengers_str(passengers) ==
    IF passengers > 1 THEN IntToStr(passengers) \o <<"adults">> ELSE <<>>

generate_kayak_url(origin, destination, depart_date, return_date, passengers) ==
    <<"https://www.kayak.com/flights/", origin, "-", destination, "/">>
    \o depart_date \o <<"/">> \o return_date \o <<"/">>
    \o kayak_passengers_str(passengers)

skyscanner_format(origin, destination, dep, retd) ==
    IF ~dep.ok \/ ~retd.ok THEN [raised |-> TRUE, url |-> <<>>]
    ELSE [raised |-> FALSE,
          url |-> <<"https://www.skyscanner.com/transport/flights/",
                    Lower(origin), "/", Lower(destination), "e", "/">>
                  \o strftime(dep) \o <<"/">> \o strftime(retd) \o <<"/">>]

\* [raised |-> TRUE] stands for the ValueError of strptime
generate_skyscanner_url(origin, destination, depart_date, return_date, passengers) ==
    skyscanner_format(origin, destination, strptime(depart_date), strptime(return_date))

generate_southwest_url(origin, destination, depart_date, return_date, passengers) ==
    <<"https://www.southwest.com/air/booking/select.html", "?">>
    \o urlencode(<< <<"originationAirportCode", <<origin>> >>,
                    <<"destinationAirportCode", <<destination>> >>,
                    <<"returnAirportCode", <<>> >>,
                    <<"departureDate", depart_date>>,
                    <<"departureTimeOfDay", <<"ALL_DAY">> >>,
                    <<"returnDate", return_date>>,
                    <<"returnTimeOfDay", <<"ALL_DAY">> >>,
                    <<"adultPassengersCount", IntToStr(passengers)>>,
                    <<"seniorPassengersCount", <<"0">> >>,
                    <<"tripType", <<"roundtrip">> >>,
                    <<"fareType", <<"USD">> >>,
                    <<"passengerType", <<"ADULT">> >>,
                    <<"reset", <<"true">> >>,
                    <<"int", <<"HOMEQBOMAIR">> >> >>)

generate_chase_ur_url == <<"https://ultimaterewardspoints.chase.com/travel">>

generate_citi_ty_url == <<"https://www.thankyou.com/cms/thankyou/travel.page">>

\* date strings used as inputs
D_2026_01_23 == <<"2", "0", "2", "6", "-", "0", "1", "-", "2", "3">>
D_2026_01_24 == <<"2", "0", "2", "6", "-", "0", "1", "-", "2", "4">>
D_2026_01_26 == <<"2", "0", "2", "6", "-", "0", "1", "-", "2", "6">>
D_2026_01_27 == <<"2", "0", "2", "6", "-", "0", "1", "-", "2", "7">>
D_2026_01_28 == <<"2", "0", "2", "6", "-", "0", "1", "-", "2", "8">>
D_2026_01_29 == <<"2", "0", "2", "6", "-", "0", "1", "-", "2", "9">>
D_2026_1_24 == <<"2", "0", "2", "6", "-", "1", "-", "2", "4">>
D_2026_02_30 == <<"2", "0", "2", "6", "-", "0", "2", "-", "3", "0">>
D_2026_13_01 == <<"2", "0", "2", "6", "-", "1", "3", "-", "0", "1">>
D_01_24_2026 == <<"0", "1", "/", "2", "4", "/", "2", "0", "2", "6">>

\* ------------------------------------------------------------ Python values
\* A Python / JSON value is tagged with its type.  None is PyNone.
PyNone == [t |-> "null", v |-> <<>>]

Str(s) == [t |-> "string", v |-> s]

Num(m, e) == [t |-> "number", v |-> [m |-> m, e |-> e]]

Arr(s) == [t |-> "array", v |-> s]

Obj(f) == [t |-> "object", v |-> f]

EmptyObj == Obj(<<>>)

IsObj(j) == j.t = "object"

\* bool(j)
Truthy(j) ==
    CASE j.t = "null" -> FALSE
      [] j.t = "string" -> j.v # <<>>
      [] j.t = "array" -> j.v # <<>>
      [] j.t = "object" -> DOMAIN j.v # {}
      [] j.t = "number" -> j.v.m # 0

\* dict.get(k, default) on a value known to be a dict
GetOr(j, k, default) == IF k \in DOMAIN j.v THEN j.v[k] ELSE default

Ok(val) == [exc |-> "", val |-> val]

Raise(exc) == [exc |-> exc, val |-> <<>>]

RECURSIVE SetToSeq(_)
SetToSeq(S) ==
    IF S = {} THEN <<>>
    ELSE LET e == CHOOSE e \in S : TRUE IN <<e>> \o SetToSeq(S \ {e})

\* the items a for-loop sees, or the TypeError of a non-iterable
Iter(j) ==
    CASE j.t = "array" -> Ok(j.v)
      [] j.t = "string" -> Ok([i \in 1..Len(j.v) |-> Str(<<j.v[i]>>)])
      [] j.t = "object" -> LET keys == SetToSeq(DOMAIN j.v)
                           IN  Ok([i \in 1..Len(keys) |-> Str(<<keys[i]>>)])
      [] OTHER -> Raise("TypeError")

\* a float is m / 10^e with no trailing zero in the fraction
RECURSIVE Normalize(_, _)
Normalize(m, e) == IF e > 0 /\ m % 10 = 0 THEN Normalize(m \div 10, e - 1) ELSE [m |-> m, e |-> e]

DotPos(s) == IF \E i \in 1..Len(s) : s[i] = "." THEN CHOOSE i \in 1..Len(s) : s[i] = "." ELSE 0

float_parts(ip, fp) ==
    IF AllDigits(ip) /\ AllDigits(fp) /\ Len(ip) + Len(fp) > 0
    THEN Ok(Normalize(NumVal(ip \o fp), Len(fp)))
    ELSE Raise("ValueError")

float_str(s, p) ==
    IF p = 0 THEN float_parts(s, <<>>)
    ELSE float_parts(SubSeq(s, 1, p - 1), SubSeq(s, p + 1, Len(s)))

\* float(j): decimal strings over digits and one ".", numbers; ValueError for
\* any other string, TypeError for None, lists and dicts
float(j) ==
    CASE j.t = "number" -> Ok(Normalize(j.v.m, j.v.e))
      [] j.t = "string" -> float_str(j.v, DotPos(j.v))
      [] OTHER -> Raise("TypeError")

Hashable(j) == j.t \notin {"array", "object"}

\* ------------------------------------------------------------- AmadeusAPI
\* the seg_info dict, and the add to the airlines set
seg_info(segment, dep, arr) ==
    IF ~IsObj(dep) \/ ~IsObj(arr) THEN Raise("AttributeError")
    ELSE IF ~Hashable(GetOr(segment, "carrierCode", PyNone)) THEN Raise("TypeError")
    ELSE Ok([departure |-> GetOr(dep, "iataCode", PyNone),
             arrival |-> GetOr(arr, "iataCode", PyNone),
             departure_time |-> GetOr(dep, "at", PyNone),
             arrival_time |-> GetOr(arr, "at", PyNone),
             carrier |-> GetOr(segment, "carrierCode", PyNone),
             flight_number |-> GetOr(segment, "number", PyNone),
             duration |-> GetOr(segment, "duration", PyNone)])

\* one segment of _parse_offers' inner loop
ParseSegment(segment) ==
    IF ~IsObj(segment) THEN Raise("AttributeError")
    ELSE seg_info(segment, GetOr(segment, "departure", EmptyObj), GetOr(segment, "arrival", EmptyObj))

\* for segment in itinerary.get("segments", []): append each seg_info
RECURSIVE ParseSegments(_, _)
RECURSIVE SegmentsStep(_, _, _)
ParseSegments(segs, acc) ==
    IF segs = <<>> THEN Ok(acc) ELSE SegmentsStep(segs, acc, ParseSegment(segs[1]))

SegmentsStep(segs, acc, one) ==
    IF one.exc # "" THEN Raise(one.exc)
    ELSE ParseSegments(Tail(segs), Append(acc, one.val))

\* for itinerary in offer.get("itineraries", [])
RECURSIVE ParseItineraries(_, _)
RECURSIVE ItinerarySegments(_, _, _)
RECURSIVE ItineraryStep(_, _)
ParseItineraries(its, acc) ==
    IF its = <<>> THEN Ok(acc)
    ELSE IF ~IsObj(its[1]) THEN Raise("AttributeError")
    ELSE ItinerarySegments(its, acc, Iter(GetOr(its[1], "segments", Arr(<<>>))))

ItinerarySegments(its, acc, segs) ==
    IF segs.exc # "" THEN Raise(segs.exc)
    ELSE ItineraryStep(its, ParseSegments(segs.val, acc))

ItineraryStep(its, got) ==
    IF got.exc # "" THEN Raise(got.exc) ELSE ParseItineraries(Tail(its), got.val)

\* the parsed dict; airlines is the set of the segments' carrier codes
parsed_offer(price, total, segs) ==
    IF segs.exc # "" THEN Raise(segs.exc)
    ELSE Ok([price |-> total.val,
             currency |-> GetOr(price, "currency", Str(<<"USD">>)),
             segments |-> segs.val,
             airlines |-> {segs.val[i].carrier : i \in 1..Len(segs.val)}])

offer_itineraries(price, total, its) ==
    IF total.exc # "" THEN Raise(total.exc)
    ELSE IF its.exc # "" THEN Raise(its.exc)
    ELSE parsed_offer(price, total, ParseItineraries(its.val, <<>>))

offer_price(offer, price) ==
    IF ~IsObj(price) THEN Raise("AttributeError")
    ELSE offer_itineraries(price, float(GetOr(price, "total", Num(0, 0))),
                           Iter(GetOr(offer, "itineraries", Arr(<<>>))))

\* the body of _parse_offers' outer loop
ParseOffer(offer) ==
    IF ~IsObj(offer) THEN Raise("AttributeError")
    ELSE offer_price(offer, GetOr(offer, "price", EmptyObj))

RECURSIVE ParseOfferList(_, _)
RECURSIVE OfferListStep(_, _, _)
ParseOfferList(data, acc) ==
    IF data = <<>> THEN Ok(acc) ELSE OfferListStep(data, acc, ParseOffer(data[1]))

OfferListStep(data, acc, one) ==
    IF one.exc # "" THEN Raise(one.exc)
    ELSE ParseOfferList(Tail(data), Append(acc, one.val))

parse_data(data) ==
    IF data.exc # "" THEN Raise(data.exc) ELSE ParseOfferList(data.val, <<>>)

\* AmadeusAPI._parse_offers
parse_offers(response) ==
    IF ~IsObj(response) THEN Raise("AttributeError")
    ELSE parse_data(Iter(GetOr(response, "data", Arr(<<>>))))

\* An HTTP exchange as urlopen + json.loads see it: the transport fails
\* (URLError), the status is not 2xx (HTTPError), the body is not JSON
\* (JSONDecodeError), or the body is the JSON value `body`.
HttpFail(kind) == [kind |-> kind, body |-> PyNone]

HttpJson(body) == [kind |-> "json", body |-> body]

\* what urlopen(...) then json.loads(response.read()) yields
ReadJson(http) ==
    CASE http.kind = "network_error" -> Raise("URLError")
      [] http.kind = "http_error" -> Raise("HTTPError")
      [] http.kind = "bad_json" -> Raise("JSONDecodeError")
      [] http.kind = "json" -> Ok(http.body)

is_configured_key_only(api) == Truthy(api.api_key)

\* AmadeusAPI.is_configured
is_configured(api) == Truthy(api.api_key) /\ Truthy(api.api_secret)

\* self.token = result.get("access_token"); return bool(self.token)
store_token(client, token) == [api |-> [client EXCEPT !.token = token], ret |-> Truthy(token)]

authenticate_body(client, got) ==
    IF got.exc # "" \/ ~IsObj(got.val) THEN [api |-> client, ret |-> FALSE]
    ELSE store_token(client, GetOr(got.val, "access_token", PyNone))

\* AmadeusAPI.authenticate from the token response on: the client after the
\* call and the returned bool
authenticate_response(client, http) == authenticate_body(client, ReadJson(http))

\* the offers response handled with no except clause
offers_uncaught(offers) == IF offers.exc # "" THEN Raise(offers.exc) ELSE Ok(Arr(offers.val))

\* `return self._parse_offers(result)` inside the try: an exception of the
\* parse yields None
offers_or_none(offers) == IF offers.exc # "" THEN Ok(PyNone) ELSE Ok(Arr(offers.val))

search_body_uncaught(got) ==
    IF got.exc # "" THEN Raise(got.exc) ELSE offers_uncaught(parse_offers(got.val))

\* the try block of AmadeusAPI.search_flights: an exception of urlopen or of
\* json.loads yields None
search_body(got) ==
    IF got.exc # "" THEN Ok(PyNone) ELSE offers_or_none(parse_offers(got.val))

search_response_uncaught(http) == search_body_uncaught(ReadJson(http))

\* AmadeusAPI.search_flights from the offers response on.  Every exception of
\* the request, the JSON decoding and the parse is caught: the result never
\* carries an exception.
search_response(http) == search_body(ReadJson(http))

\* --------------------------------------------------------- program inputs
\* PRESETS as the source sets it; the model takes the first MaxReturnDates
\* of the four return dates.
ColoradoReturnDates == <<D_2026_01_26, D_2026_01_27, D_2026_01_28, D_2026_01_29>>

SourcePresets ==
    [colorado_trip |->
        [origin |-> "PHL",
         destination |-> "DEN",
         outbound_dates |-> <<D_2026_01_23, D_2026_01_24>>,
         return_dates |-> SubSeq(ColoradoReturnDates, 1, MaxReturnDates),
         passengers |-> 2]]

\* PRESETS is a module-level mutable dict: the second table is one a caller
\* has installed in its place, with a preset whose second return date is no
\* calendar date.
ReplacedPresets ==
    [winter_trip |->
        [origin |-> "PHL",
         destination |-> "DEN",
         outbound_dates |-> <<D_2026_01_23, D_2026_01_24>>,
         return_dates |-> <<D_2026_01_26, D_2026_02_30>>,
         passengers |-> 3]]

PresetTables == <<SourcePresets, ReplacedPresets>>

PresetNames == {"colorado_trip", "winter_trip", "ski_trip"}

\* values of AMADEUS_API_KEY / AMADEUS_API_SECRET: unset, set to "", set
EnvValues == <<PyNone, Str(<<>>), Str(<<"secret">>)>>

DepartInputs == <<D_2026_01_24, D_2026_1_24, D_2026_02_30, D_01_24_2026>>

ReturnInputs == <<D_2026_01_26, D_2026_13_01>>

Passengers == 1..MaxPassengers

\* bodies of the token endpoint
TokenResponses ==
    <<HttpFail("network_error"),
      HttpFail("http_error"),
      HttpFail("bad_json"),
      HttpJson(Arr(<<>>)),
      HttpJson(EmptyObj),
      HttpJson(Obj([access_token |-> PyNone])),
      HttpJson(Obj([access_token |-> Str(<<>>)])),
      HttpJson(Obj([access_token |-> Str(<<"tok">>)]))>>

SegFull ==
    Obj([departure |-> Obj([iataCode |-> Str(<<"PHL">>), at |-> Str(<<"2026-01-24T08:00:00">>)]),
         arrival |-> Obj([iataCode |-> Str(<<"DEN">>), at |-> Str(<<"2026-01-24T10:30:00">>)]),
         carrierCode |-> Str(<<"UA">>),
         number |-> Str(<<"4", "1", "2">>),
         duration |-> Str(<<"PT4H30M">>)])

SegSparse == Obj([carrierCode |-> Str(<<"F9">>)])

OfferGood ==
    Obj([price |-> Obj([total |-> Str(<<"3", "1", "2", ".", "4", "0">>), currency |-> Str(<<"USD">>)]),
         itineraries |-> Arr(<<Obj([segments |-> Arr(<<SegFull, SegSparse>>)]),
                               Obj([segments |-> Arr(<<SegFull>>)])>>)])

OfferSparse == Obj([itineraries |-> Arr(<<Obj([segments |-> Arr(<<SegSparse>>)])>>)])

OfferBadTotal ==
    Obj([price |-> Obj([total |-> Str(<<"a", "b", "c">>), currency |-> Str(<<"USD">>)]),
         itineraries |-> Arr(<<Obj([segments |-> Arr(<<SegFull>>)])>>)])

OfferNullPrice == Obj([price |-> PyNone, itineraries |-> Arr(<<>>)])

OfferNullItineraries ==
    Obj([price |-> Obj([total |-> Str(<<"9", "9">>)]), itineraries |-> PyNone])

OfferNullDeparture ==
    Obj([price |-> Obj([total |-> Str(<<"9", "9">>)]),
         itineraries |-> Arr(<<Obj([segments |-> Arr(<<Obj([departure |-> PyNone])>>)])>>)])

\* offers with one field of the wrong shape
MalformedOffers == <<OfferBadTotal, OfferNullPrice, OfferNullItineraries, OfferNullDeparture>>

\* bodies of the flight-offers endpoint
SearchResponses ==
    <<HttpFail("network_error"),
      HttpFail("http_error"),
      HttpFail("bad_json"),
      HttpJson(Arr(<<>>)),
      HttpJson(EmptyObj),
      HttpJson(Obj([data |-> PyNone])),
      HttpJson(Obj([data |-> Arr(<<OfferGood, OfferSparse>>)]))>>
    \o [i \in 1..Len(MalformedOffers) |-> HttpJson(Obj([data |-> Arr(<<OfferGood, MalformedOffers[i]>>)]))]
    \o <<HttpJson(Obj([data |-> Arr(<<OfferBadTotal, OfferSparse>>)]))>>

\* ------------------------------------------------------------------- state
VARIABLES
    environ,       \* os.environ: AMADEUS_API_KEY, AMADEUS_API_SECRET
    PRESETS,       \* the module-level preset table
    run,           \* the invocation: entry point and its arguments
    pc,            \* "idle", "token_wait", "offers_wait", "done"
    api,           \* the AmadeusAPI instance of the current search_flights call
    calls,         \* arguments of every search_flights call made so far
    results,       \* the result list being built (results / [result])
    requests,      \* every network request issued so far
    lastResponse,  \* the flight-offers response the current client has read
    outcome,       \* how the invocation ended
    returned,      \* the results handed back to the caller
    url_ret        \* return value of a direct URL generator call

vars == <<environ, PRESETS, run, pc, api, calls, results, requests, lastResponse,
          outcome, returned, url_ret>>

NoParams ==
    [origin |-> None, destination |-> None, depart_date |-> <<>>, return_date |-> <<>>,
     passengers |-> 1, use_api |-> TRUE]

NoClient == [api_key |-> PyNone, api_secret |-> PyNone, token |-> PyNone]

NoResponse == [call |-> 0, http |-> HttpFail("none")]

\* AmadeusAPI.__init__ as a client that outlives its call would behave
AmadeusAPI_shared ==
    IF Truthy(api.token) THEN api
    ELSE [api_key |-> environ.AMADEUS_API_KEY, api_secret |-> environ.AMADEUS_API_SECRET,
          token |-> PyNone]

\* AmadeusAPI.__init__
AmadeusAPI_init ==
    [api_key |-> environ.AMADEUS_API_KEY, api_secret |-> environ.AMADEUS_API_SECRET,
     token |-> PyNone]

api_wanted_ignoring_flag(use_api, client) == is_configured(client)

\* search_flights: `if use_api:` ... `if api.is_configured():`
api_wanted(use_api, client) == use_api /\ is_configured(client)

\* the result dict of search_flights once the URLs are generated, or the
\* ValueError of generate_skyscanner_url (timestamp left out)
result_dict(params, api_results, sky) ==
    IF sky.raised THEN Raise("ValueError: strptime")
    ELSE Ok([search_params |-> [origin |-> params.origin, destination |-> params.destination,
                                depart_date |-> params.depart_date,
                                return_date |-> params.return_date,
                                passengers |-> params.passengers],
             api_results |-> api_results,
             urls |-> [google_flights |->
                           generate_google_flights_direct_url(params.origin, params.destination,
                               params.depart_date, params.return_date, params.passengers),
                       kayak |->
                           generate_kayak_url(params.origin, params.destination,
                               params.depart_date, params.return_date, params.passengers),
                       skyscanner |-> sky.url,
                       southwest |->
                           generate_southwest_url(params.origin, params.destination,
                               params.depart_date, params.return_date, params.passengers)],
             points_urls |-> [chase_ultimate_rewards |-> generate_chase_ur_url,
                              citi_thankyou |-> generate_citi_ty_url]])

make_result(params, api_results) ==
    result_dict(params, api_results,
                generate_skyscanner_url(params.origin, params.destination, params.depart_date,
                                        params.return_date, params.passengers))

DatePairs_return_major(preset) ==
    LET N == Len(preset.outbound_dates)
        M == Len(preset.return_dates)
    IN  [p \in 1..(N * M) |-> <<preset.outbound_dates[((p - 1) % N) + 1],
                                preset.return_dates[((p - 1) \div N) + 1]>>]

\* the (depart, return_date) pairs in the order the nested loops visit them
DatePairs(preset) ==
    LET N == Len(preset.outbound_dates)
        M == Len(preset.return_dates)
    IN  [p \in 1..(N * M) |-> <<preset.outbound_dates[((p - 1) \div M) + 1],
                                preset.return_dates[((p - 1) % M) + 1]>>]

\* the keyword arguments of the search_flights call in the loop body;
\* use_api is not passed and takes its default, True
preset_call_params(preset, pair) ==
    [origin |-> preset.origin, destination |-> preset.destination,
     depart_date |-> pair[1], return_date |-> pair[2],
     passengers |-> preset.passengers, use_api |-> TRUE]

IsPresetRun(r) ==
    \/ r.fn = "search_date_combinations"
    \/ r.fn = "main" /\ r.preset_name # None

preset_calls(preset, pairs) == [p \in 1..Len(pairs) |-> preset_call_params(preset, pairs[p])]

\* the search_flights calls the invocation makes if none of them raises
Calls(r, P) ==
    IF IsPresetRun(r) THEN preset_calls(P[r.preset_name], DatePairs(P[r.preset_name]))
    ELSE <<r.params>>

\* an uncaught exception unwinds every frame: nothing is returned (results
\* keeps the list as it stood when the exception left the loop)
Raised(m, exc) == [m EXCEPT !.pc = "done", !.outcome = exc]

\* issue the token POST of authenticate / the offers GET of search_flights
SendToken(m) ==
    [m EXCEPT !.pc = "token_wait",
              !.requests = Append(@, [kind |-> "token", call |-> Len(m.calls), bearer |-> PyNone])]

SendOffers(m) ==
    [m EXCEPT !.pc = "offers_wait",
              !.requests = Append(@, [kind |-> "offers", call |-> Len(m.calls), bearer |-> m.api.token])]

\* Runs the invocation from the start of its next search_flights call up to
\* the next network request, or to its end.
RECURSIVE StartCall(_, _, _)
RECURSIVE NextCall(_, _, _, _)
RECURSIVE BeginCall(_, _, _, _)
RECURSIVE TryApi(_, _, _, _)
RECURSIVE FinishCall(_, _, _, _)
RECURSIVE Finished(_, _, _, _)
StartCall(r, P, m) == NextCall(r, P, m, Calls(r, P))

\* the loops of search_date_combinations are over, or search_flights returned
\* to main or to the caller
NextCall(r, P, m, todo) ==
    IF Len(m.calls) + 1 > Len(todo)
    THEN [m EXCEPT !.pc = "done",
                   !.outcome = IF r.fn = "main" THEN "exit_0" ELSE "returned",
                   !.returned = IF r.fn = "main" THEN <<>> ELSE m.results]
    ELSE BeginCall(r, P, m, todo[Len(m.calls) + 1])

BeginCall(r, P, m, params) ==
    TryApi(r, P, [m EXCEPT !.calls = Append(@, params),
                           !.lastResponse = IF params.use_api THEN NoResponse ELSE @],
           AmadeusAPI_init)

\* search_flights: `if use_api: api = AmadeusAPI()`, `if api.is_configured():`
\* then AmadeusAPI.search_flights up to its first request: `if not
\* self.token:` authenticate
TryApi(r, P, m, client) ==
    IF api_wanted(m.calls[Len(m.calls)].use_api, client)
    THEN IF ~Truthy(client.token) THEN SendToken([m EXCEPT !.api = client])
         ELSE SendOffers([m EXCEPT !.api = client])
    ELSE FinishCall(r, P, [m EXCEPT !.api = IF m.calls[Len(m.calls)].use_api THEN client ELSE @],
                    PyNone)

\* search_flights from the assignment of api_results on, then the caller
FinishCall(r, P, m, api_results) ==
    Finished(r, P, m, make_result(m.calls[Len(m.calls)], api_results))

\* the exception leaves search_flights, or the caller takes the result
\* (tagged with trip_name and appended in search_date_combinations)
Finished(r, P, m, res) ==
    IF res.exc # "" THEN Raised(m, res.exc)
    ELSE StartCall(r, P, [m EXCEPT !.results =
                              Append(@, IF IsPresetRun(r)
                                        THEN res.val @@ [trip_name |-> r.preset_name]
                                        ELSE res.val)])

preset_registered_always(preset_name, P) == TRUE

\* `preset_name in PRESETS`
preset_registered(preset_name, P) == preset_name \in DOMAIN P

search_date_combinations(r, P, m) ==
    IF ~preset_registered(r.preset_name, P) THEN Raised(m, "ValueError: Unknown preset")
    ELSE IF r.preset_name \notin DOMAIN P THEN Raised(m, "KeyError")
    ELSE StartCall(r, P, m)

\* the machine part of the state
Machine ==
    [pc |-> pc, api |-> api, calls |-> calls, results |-> results, requests |-> requests,
     lastResponse |-> lastResponse, outcome |-> outcome, returned |-> returned]

Apply(m) ==
    /\ pc' = m.pc
    /\ api' = m.api
    /\ calls' = m.calls
    /\ results' = m.results
    /\ requests' = m.requests
    /\ lastResponse' = m.lastResponse
    /\ outcome' = m.outcome
    /\ returned' = m.returned

Init ==
    /\ \E i, j \in 1..Len(EnvValues) :
          environ = [AMADEUS_API_KEY |-> EnvValues[i], AMADEUS_API_SECRET |-> EnvValues[j]]
    /\ \E t \in 1..Len(PresetTables) : PRESETS = PresetTables[t]
    /\ run = [fn |-> "none", preset_name |-> None, no_api |-> FALSE, list_presets |-> FALSE,
              params |-> NoParams]
    /\ pc = "idle"
    /\ api = NoClient
    /\ calls = <<>>
    /\ results = <<>>
    /\ requests = <<>>
    /\ lastResponse = NoResponse
    /\ outcome = "running"
    /\ returned = <<>>
    /\ url_ret = <<>>

\* ------------------------------------------------------------------ actions
ManualParams ==
    {[origin |-> "PHL", destination |-> "DEN", depart_date |-> DepartInputs[a],
      return_date |-> ReturnInputs[b], passengers |-> n, use_api |-> u] :
        a \in 1..Len(DepartInputs), b \in 1..Len(ReturnInputs), n \in Passengers, u \in BOOLEAN}

\* a caller invokes search_flights(origin, destination, depart, return, n, use_api)
CallSearchFlights ==
    /\ pc = "idle"
    /\ \E params \in ManualParams :
          LET r == [fn |-> "search_flights", preset_name |-> None, no_api |-> FALSE,
                    list_presets |-> FALSE, params |-> params]
          IN  /\ run' = r
              /\ Apply(StartCall(r, PRESETS, Machine))
    /\ UNCHANGED <<environ, PRESETS, url_ret>>

\* a caller invokes search_date_combinations(preset_name)
CallSearchDateCombinations ==
    /\ pc = "idle"
    /\ \E name \in PresetNames :
          LET r == [fn |-> "search_date_combinations", preset_name |-> name, no_api |-> FALSE,
                    list_presets |-> FALSE, params |-> NoParams]
          IN  /\ run' = r
              /\ Apply(search_date_combinations(r, PRESETS, Machine))
    /\ UNCHANGED <<environ, PRESETS, url_ret>>

\* command lines: --list-presets, --config NAME [--no-api], the manual
\* parameters [--no-api], and one with a manual parameter missing
MainArgv ==
    {[list_presets |-> TRUE, config |-> None, no_api |-> FALSE, params |-> NoParams]}
    \cup {[list_presets |-> FALSE, config |-> c, no_api |-> na, params |-> NoParams] :
            c \in PresetNames, na \in BOOLEAN}
    \cup {[list_presets |-> FALSE, config |-> None, no_api |-> ~p.use_api, params |-> p] :
            p \in ManualParams}
    \cup {[list_presets |-> FALSE, config |-> None, no_api |-> na,
           params |-> [NoParams EXCEPT !.destination = "DEN"]] : na \in BOOLEAN}

main_run(argv) ==
    [fn |-> "main", preset_name |-> argv.config, no_api |-> argv.no_api,
     list_presets |-> argv.list_presets,
     params |-> [argv.params EXCEPT !.use_api = ~argv.no_api]]

\* main()
main(argv, P, m) ==
    IF argv.config # None /\ argv.config \notin DOMAIN P THEN Raised(m, "SystemExit(2)")
    ELSE IF argv.list_presets THEN [m EXCEPT !.pc = "done", !.outcome = "exit_0"]
    ELSE IF argv.config # None THEN search_date_combinations(main_run(argv), P, m)
    ELSE IF /\ argv.params.origin # None
            /\ argv.params.destination # None
            /\ argv.params.depart_date # <<>>
            /\ argv.params.return_date # <<>>
    THEN StartCall(main_run(argv), P, m)
    ELSE Raised(m, "SystemExit(1)")

CallMain ==
    /\ pc = "idle"
    /\ \E argv \in MainArgv :
          /\ run' = main_run(argv)
          /\ Apply(main(argv, PRESETS, Machine))
    /\ UNCHANGED <<environ, PRESETS, url_ret>>

\* a caller invokes generate_google_flights_url, which search_flights does
\* not use
CallGenerateGoogleFlightsUrl ==
    /\ pc = "idle"
    /\ \E params \in ManualParams :
          /\ run' = [fn |-> "generate_google_flights_url", preset_name |-> None,
                     no_api |-> FALSE, list_presets |-> FALSE, params |-> params]
          /\ url_ret' = generate_google_flights_url(params.origin, params.destination,
                            params.depart_date, params.return_date, params.passengers)
    /\ pc' = "done"
    /\ outcome' = "returned"
    /\ UNCHANGED <<environ, PRESETS, api, calls, results, requests, lastResponse, returned>>

\* the GET issued whatever authenticate returned
Authenticated_unchecked(a) == SendOffers([Machine EXCEPT !.api = a.api])

\* authenticate returned: the GET of AmadeusAPI.search_flights, or its
\* `return None` and the rest of the invocation
Authenticated(a) ==
    IF a.ret THEN SendOffers([Machine EXCEPT !.api = a.api])
    ELSE FinishCall(run, PRESETS, [Machine EXCEPT !.api = a.api], PyNone)

\* the token endpoint answers
AuthRespond ==
    /\ pc = "token_wait"
    /\ \E i \in 1..Len(TokenResponses) :
          Apply(Authenticated(authenticate_response(api, TokenResponses[i])))
    /\ UNCHANGED <<environ, PRESETS, run, url_ret>>

\* AmadeusAPI.search_flights read the response and returned (or raised) to
\* search_flights
Searched(m, got) ==
    IF got.exc # "" THEN Raised(m, got.exc)
    ELSE FinishCall(run, PRESETS, m, got.val)

OffersAnswer(http) ==
    Apply(Searched([Machine EXCEPT !.lastResponse = [call |-> Len(calls), http |-> http]],
                   search_response(http)))

\* the flight-offers endpoint answers: the rest of AmadeusAPI.search_flights
\* and of the invocation up to its next request
SearchRespond ==
    /\ pc = "offers_wait"
    /\ \E i \in 1..Len(SearchResponses) : OffersAnswer(SearchResponses[i])
    /\ UNCHANGED <<environ, PRESETS, run, url_ret>>

Next ==
    \/ CallMain
    \/ CallSearchDateCombinations
    \/ CallSearchFlights
    \/ CallGenerateGoogleFlightsUrl
    \/ AuthRespond
    \/ SearchRespond

Spec == Init /\ [][Next]_vars

\* ------------------------------------------------------------ properties
SiteKeys == {"google_flights", "kayak", "skyscanner", "southwest"}

PortalKeys == {"chase_ultimate_rewards", "citi_thankyou"}

UrlsPopulated(r) ==
    /\ DOMAIN r.urls = SiteKeys
    /\ \A key \in SiteKeys : r.urls[key] # <<>>
    /\ DOMAIN r.points_urls = PortalKeys
    /\ \A key \in PortalKeys : r.points_urls[key] # <<>>

NonEmptyString(j) == j.t = "string" /\ j.v # <<>>

CredentialsConfigured ==
    NonEmptyString(environ.AMADEUS_API_KEY) /\ NonEmptyString(environ.AMADEUS_API_SECRET)

\* the inputs that are no YYYY-MM-DD calendar date
NonDates == {D_2026_02_30, D_2026_13_01, D_01_24_2026}

WellFormedDates(p) == p.depart_date \notin NonDates /\ p.return_date \notin NonDates

TokenRequests(n) == {i \in 1..Len(requests) : requests[i].kind = "token" /\ requests[i].call = n}

OffersRequests(n) == {i \in 1..Len(requests) : requests[i].kind = "offers" /\ requests[i].call = n}

Completed(n) == n < Len(calls) \/ pc = "done"

EndedNormally == outcome \in {"returned", "exit_0"}

TokenFailed(n) == TokenRequests(n) # {} /\ OffersRequests(n) = {} /\ Completed(n)

SearchFailed(n) ==
    /\ lastResponse.call = n
    /\ lastResponse.http.kind \in {"network_error", "http_error", "bad_json"}

\* C1: a search_flights call with well-formed dates, use_api true and
\* credentials configured whose token exchange or offers request fails
\* returns normally, with api_results None, all four urls and both
\* points_urls.
C1_ApiFailureSwallowed ==
    \A n \in 1..Len(calls) :
        ( /\ calls[n].use_api
          /\ CredentialsConfigured
          /\ WellFormedDates(calls[n])
          /\ (TokenFailed(n) \/ SearchFailed(n)) )
        => /\ Len(results) >= n
           /\ results[n].api_results.t = "null"
           /\ UrlsPopulated(results[n])
           /\ (run.fn = "search_flights" => outcome = "returned" /\ returned = results)

C1_Witness ==
    /\ run.fn = "search_flights"
    /\ run.params.use_api
    /\ CredentialsConfigured
    /\ SearchFailed(1)
    /\ outcome = "returned"
    /\ Len(returned) = 1
    /\ returned[1].api_results.t = "null"

\* C2: a search_flights call with use_api false issues no network request,
\* whatever the credentials are, and (its dates being calendar dates) returns
\* a result with api_results None and populated urls and points_urls.
C2_NoApiNoNetwork ==
    \A n \in 1..Len(calls) :
        ~calls[n].use_api
        => /\ TokenRequests(n) = {} /\ OffersRequests(n) = {}
           /\ WellFormedDates(calls[n])
              => /\ Len(results) >= n
                 /\ results[n].api_results.t = "null"
                 /\ UrlsPopulated(results[n])

C2_Witness ==
    /\ run.fn = "search_flights"
    /\ ~run.params.use_api
    /\ CredentialsConfigured
    /\ outcome = "returned"
    /\ requests = <<>>
    /\ UrlsPopulated(returned[1])

\* C3: is_configured is true iff both credentials are set (to a non-empty
\* value), and a result's api_results is non-None only if use_api was true,
\* both credentials were present, a token was obtained and the offers
\* request succeeded and parsed.
C3_OffersOnlyWhenApiSucceeds ==
    /\ is_configured(AmadeusAPI_init) <=> CredentialsConfigured
    /\ \A n \in 1..Len(results) :
          results[n].api_results.t # "null"
          => /\ calls[n].use_api
             /\ environ.AMADEUS_API_KEY.t = "string"
             /\ environ.AMADEUS_API_SECRET.t = "string"
             /\ CredentialsConfigured
             /\ TokenRequests(n) # {}
             /\ \E i \in OffersRequests(n) : NonEmptyString(requests[i].bearer)
             /\ lastResponse.call = n
                => /\ lastResponse.http.kind = "json"
                   /\ parse_offers(lastResponse.http.body).exc = ""
                   /\ results[n].api_results = Arr(parse_offers(lastResponse.http.body).val)

C3_Witness ==
    /\ Len(results) >= 1
    /\ lastResponse.call = 1
    /\ results[1].api_results.t = "array"
    /\ Len(results[1].api_results.v) = 2

\* C4: search_date_combinations with a name that is no key of PRESETS raises
\* the unknown-preset ValueError before anything is searched: no
\* search_flights call, no network request, no result list.
C4_UnknownPresetFails ==
    (run.fn = "search_date_combinations" /\ run.preset_name \notin DOMAIN PRESETS)
    => /\ pc = "done"
       /\ outcome = "ValueError: Unknown preset"
       /\ calls = <<>>
       /\ requests = <<>>
       /\ results = <<>>
       /\ returned = <<>>

C4_Witness ==
    /\ run.fn = "search_date_combinations"
    /\ run.preset_name = "ski_trip"
    /\ outcome = "ValueError: Unknown preset"

\* C5: for a registered preset with N outbound and M return dates,
\* search_date_combinations calls search_flights once per pair, one after
\* another in departure-date-major order, and returns N*M results in that
\* order, each with the preset's origin, destination, passengers and
\* trip_name = the preset name.
C5_PresetOrder ==
    (IsPresetRun(run) /\ run.preset_name \in DOMAIN PRESETS)
    => LET preset == PRESETS[run.preset_name]
           N == Len(preset.outbound_dates)
           M == Len(preset.return_dates)
       IN  /\ Len(calls) <= N * M
           /\ Len(results) <= Len(calls)
           /\ Len(calls) <= Len(results) + 1
           /\ \A i \in 1..N, j \in 1..M :
                 LET n == (i - 1) * M + j
                 IN  n <= Len(calls)
                     => /\ calls[n].depart_date = preset.outbound_dates[i]
                        /\ calls[n].return_date = preset.return_dates[j]
           /\ \A a, b \in 1..Len(requests) : a < b => requests[a].call <= requests[b].call
           /\ EndedNormally
              => /\ Len(calls) = N * M
                 /\ Len(results) = N * M
                 /\ (run.fn = "search_date_combinations" => returned = results)
                 /\ \A i \in 1..N, j \in 1..M :
                       LET r == results[(i - 1) * M + j]
                       IN  /\ r.search_params =
                                [origin |-> preset.origin, destination |-> preset.destination,
                                 depart_date |-> preset.outbound_dates[i],
                                 return_date |-> preset.return_dates[j],
                                 passengers |-> preset.passengers]
                           /\ r.trip_name = run.preset_name

C5_Witness ==
    /\ run.fn = "search_date_combinations"
    /\ run.preset_name = "colorado_trip"
    /\ outcome = "returned"
    /\ Len(returned) = 2 * MaxReturnDates
    /\ returned[2].search_params.depart_date = D_2026_01_23
    /\ returned[2].search_params.return_date = D_2026_01_27

AllTokenRequests == {i \in 1..Len(requests) : requests[i].kind = "token"}

\* C6 as claimed: with credentials configured and every token exchange
\* succeeding, a whole run performs the credential exchange once.
C6_AuthenticatesOncePerRun ==
    (CredentialsConfigured /\ \A n \in 1..Len(calls) : ~TokenFailed(n))
    => Cardinality(AllTokenRequests) <= 1

\* C6 amended: the credential exchange is performed once per search_flights
\* call that uses the API, by the client that call constructs: its offers
\* request follows its own token request, and a completed preset run with
\* credentials configured has made one exchange per date pair.
C6_AuthenticatesOncePerCall ==
    /\ \A n \in 1..Len(calls) :
          /\ Cardinality(TokenRequests(n)) = IF calls[n].use_api /\ CredentialsConfigured THEN 1 ELSE 0
          /\ Cardinality(OffersRequests(n)) <= 1
          /\ \A i \in OffersRequests(n) : \E j \in TokenRequests(n) : j < i
    /\ (IsPresetRun(run) /\ EndedNormally /\ CredentialsConfigured)
       => Cardinality(AllTokenRequests) = Len(DatePairs(PRESETS[run.preset_name]))

C6_Witness ==
    /\ IsPresetRun(run)
    /\ EndedNormally
    /\ CredentialsConfigured
    /\ Cardinality(AllTokenRequests) = 2 * MaxReturnDates
    /\ \A n \in 1..Len(calls) : OffersRequests(n) # {}

\* the offers of a response's data list that parse on their own
ParsesAlone(offer) == ParseOffer(offer).exc = ""

\* C7 as claimed: when the data list of a response holds well-formed offers
\* next to a malformed one, api_results still holds the parsed well-formed
\* offers.
C7_SkipAndContinue ==
    \A n \in 1..Len(calls) :
        ( /\ lastResponse.call = n
          /\ lastResponse.http.kind = "json"
          /\ IsObj(lastResponse.http.body)
          /\ GetOr(lastResponse.http.body, "data", Arr(<<>>)).t = "array" )
        => LET data == GetOr(lastResponse.http.body, "data", Arr(<<>>)).v
           IN  \A d \in 1..Len(data) :
                  ParsesAlone(data[d])
                  => /\ Len(results) >= n
                     /\ results[n].api_results.t = "array"
                     /\ \E o \in 1..Len(results[n].api_results.v) :
                           results[n].api_results.v[o] = ParseOffer(data[d]).val

KayakSuffix(n) == <<"/">> \o IntToStr(n) \o <<"adults">>

SouthwestParam(n) == <<"&", "adultPassengersCount", "=">> \o IntToStr(n) \o <<"&">>

GoogleText(n) == <<"+">> \o IntToStr(n) \o <<"+", "passengers">>

KayakAndGoogleOmitForOne ==
    /\ \A n \in 1..Len(results) :
          LET p == results[n].search_params.passengers
              url == results[n].urls.kayak
          IN  /\ p = 1 => ~Contains(url, <<"adults">>) /\ url[Len(url)] = "/"
              /\ p > 1 => EndsWith(url, KayakSuffix(p))
    /\ run.fn = "generate_google_flights_url"
       => LET p == run.params.passengers
          IN  /\ p = 1 => ~Contains(url_ret, <<"passengers">>)
              /\ p > 1 => EndsWith(url_ret, GoogleText(p))

\* C8 as claimed: Kayak's suffix, Southwest's adultPassengersCount parameter
\* and the Google Flights query text are absent when passengers = 1 and
\* present with the value n when passengers = n > 1.
C8_PassengerCountOmittedForOne ==
    /\ KayakAndGoogleOmitForOne
    /\ \A n \in 1..Len(results) :
          LET p == results[n].search_params.passengers
              url == results[n].urls.southwest
          IN  /\ p = 1 => ~Contains(url, <<"adultPassengersCount">>)
              /\ p > 1 => Contains(url, SouthwestParam(p))

\* C8 amended: Kayak's '<n>adults' suffix and the Google Flights query text
\* are absent when passengers = 1 and present with n when passengers = n > 1;
\* Southwest's adultPassengersCount parameter is present with the value n for
\* every n, n = 1 included.
C8_PassengerCountEncoding ==
    /\ KayakAndGoogleOmitForOne
    /\ \A n \in 1..Len(results) :
          Contains(results[n].urls.southwest, SouthwestParam(results[n].search_params.passengers))

C8_Witness ==
    /\ Len(results) = 1
    /\ results[1].search_params.passengers = 1
    /\ Contains(results[1].urls.southwest, SouthwestParam(1))
    /\ ~Contains(results[1].urls.kayak, <<"adults">>)

\* C9 as claimed (credentials being configured): with --no-api no API lookup
\* is attempted for any date pair, in manual mode and in --config mode: every
\* search_flights call has use_api false, no request is issued and every
\* result has api_results None.
C9_NoApiFlagSkipsLookup ==
    (run.fn = "main" /\ run.no_api /\ CredentialsConfigured)
    => /\ \A n \in 1..Len(calls) : ~calls[n].use_api
       /\ requests = <<>>
       /\ \A n \in 1..Len(results) : results[n].api_results.t = "null"

\* C10: a depart or return date that is no YYYY-MM-DD calendar date makes
\* search_flights raise the format error uncaught: no result for that call,
\* nothing returned, and a preset run stops at that combination.  The URL
\* generators raise nothing else and issue no request.
C10_FormatErrorPropagates ==
    /\ \A n \in 1..Len(calls) :
          ~WellFormedDates(calls[n])
          => /\ n = Len(calls)
             /\ Len(results) = n - 1
             /\ returned = <<>>
             /\ pc = "done" => outcome = "ValueError: strptime"
    /\ outcome = "ValueError: strptime"
       => /\ calls # <<>>
          /\ ~WellFormedDates(calls[Len(calls)])
    /\ \A n \in 1..Len(calls) :
          (WellFormedDates(calls[n]) /\ Completed(n)) => Len(results) >= n
    /\ run.fn = "generate_google_flights_url"
       => requests = <<>> /\ outcome = "returned" /\ url_ret # <<>>
    /\ Len(requests) <= 2 * Len(calls)

C10_Witness ==
    /\ IsPresetRun(run)
    /\ run.preset_name = "winter_trip"
    /\ outcome = "ValueError: strptime"
    /\ Len(calls) = 2
    /\ Len(results) = 1
    /\ returned = <<>>

\* the search_flights calls that reach AmadeusAPI.search_flights
ApiCalls == {n \in 1..Len(calls) : calls[n].use_api /\ CredentialsConfigured}

\* call n is over and its client holds no token: authenticate returned False
\* (the client in `api` is the one of the latest call)
AuthenticationFailed(n) == n = Len(calls) /\ pc = "done" /\ ~Truthy(api.token)

\* C11: one search_flights call with use_api true and credentials configured
\* issues at most one token request and at most one offer-search request;
\* the offer-search request comes after the call's token request and carries
\* the non-empty token the client holds; when authentication fails the call
\* issues no offer-search request and the client returns None (api_results
\* of the call's result is None).
C11_RequestOrdering ==
    \A n \in ApiCalls :
        /\ Cardinality(TokenRequests(n)) <= 1
        /\ Cardinality(OffersRequests(n)) <= 1
        /\ \A i \in OffersRequests(n) :
              /\ Truthy(requests[i].bearer)
              /\ \E j \in TokenRequests(n) : j < i
              /\ n = Len(calls) => requests[i].bearer = api.token
        /\ AuthenticationFailed(n)
              => /\ OffersRequests(n) = {}
                 /\ n <= Len(results) => results[n].api_results = PyNone

\* a preset run whose first call searched with its token and whose last call
\* failed to authenticate
C11_Witness ==
    /\ Len(calls) >= 2
    /\ ApiCalls = 1..Len(calls)
    /\ \E i \in OffersRequests(1) : \E j \in TokenRequests(1) : j < i /\ Truthy(requests[i].bearer)
    /\ AuthenticationFailed(Len(calls))
    /\ Cardinality(TokenRequests(Len(calls))) = 1
    /\ OffersRequests(Len(calls)) = {}
    /\ Len(results) = Len(calls)
    /\ results[Len(calls)].api_results = PyNone

====
